---- MODULE Spec2Model ----
(***************************************************************************)
(* arxiv_parser.py: the digest parser process_email_body (text is a        *)
(* sequence of one-character strings, so that split, strip, splitlines,    *)
(* lower, the two regular expressions and the substring test are computed  *)
(* character by character) and the IMAP main loop that feeds it.           *)
(***************************************************************************)
EXTENDS Integers, Sequences, FiniteSets, TLC

VARIABLES
    body, keywords,                 \* arguments of process_email_body
    sections, lower_keywords, si,   \* body.split(...), lowered keywords, index of the section loop
    lines, li,                      \* section.splitlines(), index of the line loop
    current_title, current_link,    \* <<>> is None, <<t>> is the string t
    abstract_lines, in_abstract,
    found_papers,
    pc,                             \* position in process_email_body
    mpc,                            \* position in the __main__ block
    uids, mi,                       \* UIDs returned by the search, index of the message loop
    all_matches,
    logged_in,                      \* whether mail.login returned
    imap_log,                       \* IMAP commands issued after the login, in order
    handed,                         \* UIDs whose body was passed to process_email_body, in order
    written                         \* arguments of the write_results calls, in order

pvars == <<body, keywords, sections, lower_keywords, si, lines, li, current_title,
           current_link, abstract_lines, in_abstract, found_papers, pc>>

mvars == <<mpc, uids, mi, all_matches, logged_in, imap_log, handed, written>>

vars == <<pvars, mvars>>

-----------------------------------------------------------------------------
(* Bounds of the checked inputs *)

MaxLines == 4
MaxBlocks == 3
MaxPad == 2
MaxMsgs == 2

-----------------------------------------------------------------------------
(* Python str operations on character sequences *)

UpperCase == <<"A", "B", "C", "D", "E", "F", "G", "H", "I", "J", "K", "L", "M",
               "N", "O", "P", "Q", "R", "S", "T", "U", "V", "W", "X", "Y", "Z">>

LowerCase == <<"a", "b", "c", "d", "e", "f", "g", "h", "i", "j", "k", "l", "m",
               "n", "o", "p", "q", "r", "s", "t", "u", "v", "w", "x", "y", "z">>

LowerOf == [c \in {UpperCase[i] : i \in 1..26} |->
               LowerCase[CHOOSE i \in 1..26 : UpperCase[i] = c]]

LowerChar(c) == IF c \in DOMAIN LowerOf THEN LowerOf[c] ELSE c

\* str.lower()
Lower(s) == [i \in 1..Len(s) |-> LowerChar(s[i])]

\* the whitespace of str.strip() and of \s, \S in the regular expressions
IsSpace(c) == c \in {" ", "\t", "\n", "\r"}

\* \d
IsDigit(c) == c \in {"0", "1", "2", "3", "4", "5", "6", "7", "8", "9"}

\* str.strip()
Strip(s) ==
    IF \A i \in 1..Len(s) : IsSpace(s[i]) THEN <<>>
    ELSE LET first == CHOOSE i \in 1..Len(s) :
                          ~IsSpace(s[i]) /\ \A j \in 1..(i - 1) : IsSpace(s[j])
             last == CHOOSE i \in 1..Len(s) :
                         ~IsSpace(s[i]) /\ \A j \in (i + 1)..Len(s) : IsSpace(s[j])
         IN  SubSeq(s, first, last)

\* whether p occurs in s at index i
StartsWithAt(s, i, p) ==
    /\ i >= 1
    /\ i + Len(p) - 1 <= Len(s)
    /\ \A j \in 1..Len(p) : s[i + j - 1] = p[j]

\* str.startswith(p)
StartsWith(s, p) == StartsWithAt(s, 1, p)

\* p in s
Contains(s, p) == \E i \in 1..(Len(s) + 1) : StartsWithAt(s, i, p)

\* str.find(sep, from), 1-based; 0 when sep does not occur
Find(s, sep, from) ==
    IF \E i \in from..Len(s) : StartsWithAt(s, i, sep)
    THEN CHOOSE i \in from..Len(s) :
             StartsWithAt(s, i, sep) /\ \A j \in from..(i - 1) : ~StartsWithAt(s, j, sep)
    ELSE 0

RECURSIVE SplitFrom(_, _, _)
SplitFrom(s, sep, from) ==
    LET k == Find(s, sep, from)
    IN  IF k = 0
        THEN <<SubSeq(s, from, Len(s))>>
        ELSE <<SubSeq(s, from, k - 1)>> \o SplitFrom(s, sep, k + Len(sep))

\* str.split(sep)
Split(s, sep) == SplitFrom(s, sep, 1)

RECURSIVE SplitLinesFrom(_, _)
SplitLinesFrom(s, from) ==
    IF from > Len(s) THEN <<>>
    ELSE LET k == Find(s, <<"\n">>, from)
             r == Find(s, <<"\r">>, from)
         IN  IF k = 0 /\ r = 0 THEN <<SubSeq(s, from, Len(s))>>
             ELSE LET b == IF r = 0 \/ (k # 0 /\ k < r) THEN k ELSE r
                      nxt == IF s[b] = "\r" /\ b < Len(s) /\ s[b + 1] = "\n"
                             THEN b + 2 ELSE b + 1
                  IN  <<SubSeq(s, from, b - 1)>> \o SplitLinesFrom(s, nxt)

\* str.splitlines()
SplitLines(s) == SplitLinesFrom(s, 1)

RECURSIVE Join(_, _)
\* sep.join(parts)
Join(parts, sep) ==
    IF parts = <<>> THEN <<>>
    ELSE IF Len(parts) = 1 THEN parts[1]
    ELSE parts[1] \o sep \o Join(Tail(parts), sep)

\* number of consecutive characters of s from index i on that lie in the class
SpaceRun(s, i) ==
    IF i > Len(s) THEN 0
    ELSE IF \E j \in i..Len(s) : ~IsSpace(s[j])
    THEN (CHOOSE j \in i..Len(s) : ~IsSpace(s[j]) /\ \A m \in i..(j - 1) : ~(~IsSpace(s[m]))) - i
    ELSE Len(s) - i + 1

NonSpaceRun(s, i) ==
    IF i > Len(s) THEN 0
    ELSE IF \E j \in i..Len(s) : IsSpace(s[j])
    THEN (CHOOSE j \in i..Len(s) : IsSpace(s[j]) /\ \A m \in i..(j - 1) : ~(IsSpace(s[m]))) - i
    ELSE Len(s) - i + 1

DigitRun(s, i) ==
    IF i > Len(s) THEN 0
    ELSE IF \E j \in i..Len(s) : ~IsDigit(s[j])
    THEN (CHOOSE j \in i..Len(s) : ~IsDigit(s[j]) /\ \A m \in i..(j - 1) : ~(~IsDigit(s[m]))) - i
    ELSE Len(s) - i + 1

-----------------------------------------------------------------------------
(* process_email_body: constants and regular expressions *)

paper_delimiter == [i \in 1..78 |-> "-"]

Backslash == <<"\\">>

TitlePrefix == <<"t", "i", "t", "l", "e", ":">>

\* the literal pieces of link_regex:  \\ \( (https?://arxiv\.org/abs/\S+) ,\s*\d+kb\)
LinkOpen == <<"\\", " ", "(", " ">>

Http == <<"h", "t", "t", "p">>

ArxivAbs == <<":", "/", "/", "a", "r", "x", "i", "v", ".", "o", "r", "g", "/", "a", "b", "s", "/">>

SpaceComma == <<" ", ",">>

KbClose == <<"k", "b", ")">>

\* link_regex with \s+ in place of \s*: whitespace required after the comma
MutLinkMatchAtSpaceAfterComma(line, i) ==
    LET a == i + Len(LinkOpen)
        b == a + Len(Http) + (IF StartsWithAt(line, a + Len(Http), <<"s">>) THEN 1 ELSE 0)
        c == b + Len(ArxivAbs)
        d == c + NonSpaceRun(line, c)
        e == d + Len(SpaceComma)
        f == e + SpaceRun(line, e)
        g == f + DigitRun(line, f)
    IN  IF /\ StartsWithAt(line, i, LinkOpen)
           /\ StartsWithAt(line, a, Http)
           /\ StartsWithAt(line, b, ArxivAbs)
           /\ d > c
           /\ StartsWithAt(line, d, SpaceComma)
           /\ f > e
           /\ g > f
           /\ StartsWithAt(line, g, KbClose)
        THEN <<SubSeq(line, a, d - 1)>>
        ELSE <<>>

\* link_regex matched at index i of line: <<>> when it does not match there, else
\* <<group 1>>. Every quantifier is followed by a character outside its class, so the
\* greedy choice is the only one that can match.
LinkMatchAt(line, i) ==
    LET a == i + Len(LinkOpen)
        b == a + Len(Http) + (IF StartsWithAt(line, a + Len(Http), <<"s">>) THEN 1 ELSE 0)
        c == b + Len(ArxivAbs)
        d == c + NonSpaceRun(line, c)
        e == d + Len(SpaceComma)
        f == e + SpaceRun(line, e)
        g == f + DigitRun(line, f)
    IN  IF /\ StartsWithAt(line, i, LinkOpen)
           /\ StartsWithAt(line, a, Http)
           /\ StartsWithAt(line, b, ArxivAbs)
           /\ d > c
           /\ StartsWithAt(line, d, SpaceComma)
           /\ g > f
           /\ StartsWithAt(line, g, KbClose)
        THEN <<SubSeq(line, a, d - 1)>>
        ELSE <<>>

\* link_regex.search(line): the leftmost match; <<>> is None, else <<group(1)>>
link_regex_search(line) ==
    IF \E i \in 1..Len(line) : LinkMatchAt(line, i) # <<>>
    THEN LinkMatchAt(line, CHOOSE i \in 1..Len(line) :
                               /\ LinkMatchAt(line, i) # <<>>
                               /\ \A j \in 1..(i - 1) : LinkMatchAt(line, j) = <<>>)
    ELSE <<>>

HeaderLabels ==
    { <<"a", "r", "X", "i", "v", ":">>,
      <<"D", "a", "t", "e", ":">>,
      <<"T", "i", "t", "l", "e", ":">>,
      <<"A", "u", "t", "h", "o", "r", "s", ":">>,
      <<"C", "a", "t", "e", "g", "o", "r", "i", "e", "s", ":">>,
      <<"C", "o", "m", "m", "e", "n", "t", "s", ":">>,
      <<"J", "o", "u", "r", "n", "a", "l", "-", "r", "e", "f", ":">>,
      <<"D", "O", "I", ":">>,
      <<"A", "C", "M", "-", "c", "l", "a", "s", "s", ":">>,
      <<"M", "S", "C", "-", "c", "l", "a", "s", "s", ":">> }

\* header_regex.match(line), with re.IGNORECASE
HeaderLabelsLower == {Lower(h) : h \in HeaderLabels}

header_regex_match(line) ==
    LET low == Lower(line)
    IN  \E h \in HeaderLabelsLower : StartsWith(low, h)

\* truth value of an optional string: None and "" are false
Truthy(opt) == opt # <<>> /\ opt[1] # <<>>

-----------------------------------------------------------------------------
(* process_email_body: the per-section state and the two loops *)

\* the state at the start of a section
NewSection ==
    [current_title |-> <<>>, current_link |-> <<>>,
     abstract_lines |-> <<>>, in_abstract |-> FALSE]

\* line.lower().startswith("title:")
IsTitleLine(line) == StartsWith(Lower(line), TitlePrefix)

\* the first Title line wins: a later one no longer overwrites the title
MutTitleStepFirstWins(st, line) ==
    IF st.current_title = <<>>
    THEN [st EXCEPT !.current_title = <<Strip(SubSeq(line, Len(TitlePrefix) + 1, Len(line)))>>,
                    !.in_abstract = TRUE]
    ELSE [st EXCEPT !.in_abstract = TRUE]

TitleStep(st, line) ==
    [st EXCEPT !.current_title = <<Strip(SubSeq(line, Len(TitlePrefix) + 1, Len(line)))>>,
               !.in_abstract = TRUE]

LinkStep(st, line) ==
    [st EXCEPT !.current_link = link_regex_search(line),
               !.in_abstract = FALSE]

\* the header check is missing
MutTextStepNoHeaderCheck(st, line) ==
    IF st.in_abstract /\ Truthy(st.current_title)
    THEN [st EXCEPT !.abstract_lines = Append(@, line)]
    ELSE st

TextStep(st, line) ==
    IF st.in_abstract /\ Truthy(st.current_title) /\ ~header_regex_match(line)
    THEN [st EXCEPT !.abstract_lines = Append(@, line)]
    ELSE st

\* the reference pattern is tried before the Title prefix
MutScanLineLinkFirst(st, raw) ==
    LET line == Strip(raw)
    IN  IF line = <<>> THEN st
        ELSE IF link_regex_search(line) # <<>> THEN LinkStep(st, line)
        ELSE IF IsTitleLine(line) THEN TitleStep(st, line)
        ELSE TextStep(st, line)

\* one iteration of the loop over the lines of a section
ScanLine(st, raw) ==
    LET line == Strip(raw)
    IN  IF line = <<>> THEN st
        ELSE IF IsTitleLine(line) THEN TitleStep(st, line)
        ELSE IF link_regex_search(line) # <<>> THEN LinkStep(st, line)
        ELSE TextStep(st, line)

\* the abstract is not searched
MutKeywordHitTitleOnly(keyword, title_lower, abstract_lower) ==
    Contains(title_lower, keyword)

\* keyword in title_lower or keyword in abstract_lower
KeywordHit(keyword, title_lower, abstract_lower) ==
    Contains(title_lower, keyword) \/ Contains(abstract_lower, keyword)

RECURSIVE MutKeywordLoopNoBreak(_, _, _, _)
\* the break is missing: one entry per matching keyword
MutKeywordLoopNoBreak(found, kws, st, current_abstract) ==
    IF kws = <<>> THEN found
    ELSE IF Contains(Lower(st.current_title[1]), Head(kws))
            \/ Contains(Lower(current_abstract), Head(kws))
         THEN MutKeywordLoopNoBreak(
                  Append(found, [title |-> st.current_title[1], link |-> st.current_link[1]]),
                  Tail(kws), st, current_abstract)
         ELSE MutKeywordLoopNoBreak(found, Tail(kws), st, current_abstract)

\* an empty keyword list matches every record
MutKeywordLoopEmptyMatchesAll(found, kws, st, current_abstract) ==
    IF \/ kws = <<>>
       \/ \E k \in 1..Len(kws) :
              \/ Contains(Lower(st.current_title[1]), kws[k])
              \/ Contains(Lower(current_abstract), kws[k])
    THEN Append(found, [title |-> st.current_title[1], link |-> st.current_link[1]])
    ELSE found

RECURSIVE KeywordLoop(_, _, _, _)
\* the loop over lower_keywords, with its break on the first hit
KeywordLoop(found, kws, st, current_abstract) ==
    IF kws = <<>> THEN found
    ELSE IF KeywordHit(Head(kws), Lower(st.current_title[1]), Lower(current_abstract))
         THEN Append(found, [title |-> st.current_title[1], link |-> st.current_link[1]])
         ELSE KeywordLoop(found, Tail(kws), st, current_abstract)

\* " ".join(abstract_lines).strip()
CurrentAbstract(st) == Strip(Join(st.abstract_lines, <<" ">>))

\* the abstract is not required
MutIsCompleteNoAbstract(st) ==
    Truthy(st.current_title) /\ Truthy(st.current_link)

\* if current_title and current_abstract and current_link
IsComplete(st) ==
    Truthy(st.current_title) /\ CurrentAbstract(st) # <<>> /\ Truthy(st.current_link)

\* the end of a section: the keyword match on a complete record
MatchSection(found, st, lkw) ==
    IF IsComplete(st) THEN KeywordLoop(found, lkw, st, CurrentAbstract(st)) ELSE found

\* section.strip().startswith("\\")
IsCandidate(section) == StartsWith(Strip(section), Backslash)

LowerAll(kws) == [i \in 1..Len(kws) |-> Lower(kws[i])]

RECURSIVE ScanLines(_, _)
ScanLines(st, ls) ==
    IF ls = <<>> THEN st ELSE ScanLines(ScanLine(st, Head(ls)), Tail(ls))

RECURSIVE ProcessSections(_, _, _)
ProcessSections(found, secs, lkw) ==
    IF secs = <<>> THEN found
    ELSE IF ~IsCandidate(Head(secs)) THEN ProcessSections(found, Tail(secs), lkw)
    ELSE ProcessSections(
             MatchSection(found, ScanLines(NewSection, SplitLines(Strip(Head(secs)))), lkw),
             Tail(secs), lkw)

\* the value process_email_body(body, keywords) returns
process_email_body(b, kws) ==
    ProcessSections(<<>>, Split(b, paper_delimiter), LowerAll(kws))

-----------------------------------------------------------------------------
(* The checked inputs of process_email_body *)

SeqsUpTo(S, n) == UNION {[1..k -> S] : k \in 0..n}

NL == <<"\n">>

Marker == <<"\\", "\\">>

TitleGraph == <<"T", "i", "t", "l", "e", ":", " ", "G", "r", "a", "p", "h", " ", "F", "l", "o", "w">>

TitleOld == <<"T", "I", "T", "L", "E", ":", " ", " ", "O", "l", "d", "\t">>

CommentsNet == <<"C", "o", "m", "m", "e", "n", "t", "s", ":", " ", "n", "e", "t">>

DeepNet == <<" ", "D", "e", "e", "p", " ", "N", "E", "T">>

PlainText == <<"p", "l", "a", "i", "n", " ", "t", "e", "x", "t">>

ArxivId == <<"a", "r", "X", "i", "v", ":", "2", "3", "0", "1", ".", "1">>

AuthorsAB == <<"A", "u", "t", "h", "o", "r", "s", ":", " ", "A", ",", " ", "B">>

Digest == <<"D", "i", "g", "e", "s", "t">>

Url1 == <<"h", "t", "t", "p", ":", "/", "/", "a", "r", "x", "i", "v", ".", "o", "r", "g", "/", "a", "b", "s", "/", "1">>

Url2 == <<"h", "t", "t", "p", "s", ":", "/", "/", "a", "r", "x", "i", "v", ".", "o", "r", "g", "/", "a", "b", "s", "/", "2", ",", "3">>

UrlOther == <<"h", "t", "t", "p", ":", "/", "/", "e", "x", "a", "m", "p", "l", "e", ".", "o", "r", "g", "/", "a", "b", "s", "/", "1">>

Spaces(n) == [i \in 1..n |-> " "]

\* a line in the shape of the digest's reference line: pre, then "\\ ( " url, n spaces,
\* a comma, the whitespace ws, the digits dg and "kb)"
RefLine(pre, url, n, ws, dg) ==
    pre \o <<"\\">> \o LinkOpen \o url \o Spaces(n) \o <<",">> \o ws \o dg \o KbClose

LinkLine1 == RefLine(<<>>, Url1, 1, <<" ">>, <<"2">>)

LinkLine2 == RefLine(<<>>, Url2, 1, <<>>, <<"3", "4">>)

CoreLines == {TitleGraph, TitleOld, CommentsNet, DeepNet, LinkLine1}

\* one section: the marker line, then any lines of CoreLines
CoreBodies == {Join(<<Marker>> \o ls, NL) : ls \in SeqsUpTo(CoreLines, MaxLines)}

RefLines ==
    { RefLine(pre, url, n, ws, dg) :
        pre \in {<<>>, <<"T", "i", "t", "l", "e", ":", " ">>, <<"D", "O", "I", ":", " ", "x", " ">>},
        url \in {Url1, Url2, UrlOther},
        n \in 0..MaxPad,
        ws \in SeqsUpTo({" ", "\t"}, MaxPad),
        dg \in {<<>>, <<"4", "2">>} }

\* one section: marker, title, a text line, then a line in the shape of a reference
RefBodies == {Join(<<Marker, TitleOld, DeepNet, l>>, NL) : l \in RefLines}

BlockFull ==
    Join(<<Marker, ArxivId, TitleGraph, AuthorsAB, CommentsNet, DeepNet, <<>>, PlainText,
           LinkLine1>>, <<"\r", "\n">>)

BlockPlain == Join(<<Marker, TitleOld, DeepNet, LinkLine2>>, NL)

BlockNoLink == Join(<<Marker, TitleGraph, DeepNet>>, NL)

BlockNoTitle == Join(<<Marker, DeepNet, LinkLine1>>, NL)

PrefabBlocks == {BlockFull, BlockPlain, BlockNoLink, BlockNoTitle, Digest}

\* up to MaxBlocks sections, separated by the delimiter line
MultiBodies ==
    {Join(bs, NL \o paper_delimiter \o NL) : bs \in SeqsUpTo(PrefabBlocks, MaxBlocks)}

Bodies == CoreBodies \cup RefBodies \cup MultiBodies

KeywordLists ==
    { <<>>,
      << <<"G", "r", "a", "p", "h">> >>,
      << <<"N", "E", "T">> >>,
      << <<"G", "r", "a", "p", "h">>, <<"n", "e", "t">> >>,
      << <<"q", "u", "a", "n", "t", "u", "m">> >> }

-----------------------------------------------------------------------------
(* process_email_body as a state machine: one step per loop iteration *)

ScanState ==
    [current_title |-> current_title, current_link |-> current_link,
     abstract_lines |-> abstract_lines, in_abstract |-> in_abstract]

MainIdle ==
    /\ mpc = "idle"
    /\ uids = <<>>
    /\ mi = 0
    /\ all_matches = <<>>
    /\ logged_in = FALSE
    /\ imap_log = <<>>
    /\ handed = <<>>
    /\ written = <<>>

Init ==
    /\ body \in Bodies
    /\ keywords \in KeywordLists
    /\ sections = <<>>
    /\ lower_keywords = <<>>
    /\ si = 0
    /\ lines = <<>>
    /\ li = 0
    /\ current_title = <<>>
    /\ current_link = <<>>
    /\ abstract_lines = <<>>
    /\ in_abstract = FALSE
    /\ found_papers = <<>>
    /\ pc = "split"
    /\ MainIdle

\* sections = body.split(paper_delimiter); lower_keywords = [k.lower() for k in keywords]
SplitBody ==
    /\ pc = "split"
    /\ sections' = Split(body, paper_delimiter)
    /\ lower_keywords' = LowerAll(keywords)
    /\ si' = 1
    /\ pc' = "section"
    /\ UNCHANGED <<body, keywords, lines, li, current_title, current_link,
                   abstract_lines, in_abstract, found_papers, mvars>>

\* a section that does not start with a backslash: continue
SkipSection ==
    /\ pc = "section"
    /\ si <= Len(sections)
    /\ ~IsCandidate(sections[si])
    /\ si' = si + 1
    /\ UNCHANGED <<body, keywords, sections, lower_keywords, lines, li, current_title,
                   current_link, abstract_lines, in_abstract, found_papers, pc, mvars>>

\* a candidate section: reset the per-section state and split it into lines
BeginSection ==
    /\ pc = "section"
    /\ si <= Len(sections)
    /\ IsCandidate(sections[si])
    /\ current_title' = NewSection.current_title
    /\ current_link' = NewSection.current_link
    /\ abstract_lines' = NewSection.abstract_lines
    /\ in_abstract' = NewSection.in_abstract
    /\ lines' = SplitLines(Strip(sections[si]))
    /\ li' = 1
    /\ pc' = "line"
    /\ UNCHANGED <<body, keywords, sections, lower_keywords, si, found_papers, mvars>>

\* one iteration of the loop over lines
ScanLineStep ==
    /\ pc = "line"
    /\ li <= Len(lines)
    /\ LET st == ScanLine(ScanState, lines[li])
       IN  /\ current_title' = st.current_title
           /\ current_link' = st.current_link
           /\ abstract_lines' = st.abstract_lines
           /\ in_abstract' = st.in_abstract
    /\ li' = li + 1
    /\ UNCHANGED <<body, keywords, sections, lower_keywords, si, lines, found_papers,
                   pc, mvars>>

\* after the last line: join the abstract, match the keywords, go to the next section
EndSection ==
    /\ pc = "line"
    /\ li > Len(lines)
    /\ found_papers' = MatchSection(found_papers, ScanState, lower_keywords)
    /\ si' = si + 1
    /\ pc' = "section"
    /\ UNCHANGED <<body, keywords, sections, lower_keywords, lines, li, current_title,
                   current_link, abstract_lines, in_abstract, mvars>>

\* return found_papers
Return ==
    /\ pc = "section"
    /\ si > Len(sections)
    /\ pc' = "return"
    /\ UNCHANGED <<body, keywords, sections, lower_keywords, si, lines, li,
                   current_title, current_link, abstract_lines, in_abstract,
                   found_papers, mvars>>

Next ==
    \/ SplitBody
    \/ SkipSection
    \/ BeginSection
    \/ ScanLineStep
    \/ EndSection
    \/ Return

Spec == Init /\ [][Next]_vars

-----------------------------------------------------------------------------
(* The __main__ block: connect, login, select, search, the message loop,     *)
(* logout in the finally clause, write_results.  Every call on the IMAP      *)
(* connection either returns or raises; the server chooses the statuses, the *)
(* UIDs and the messages.                                                    *)

\* the parser's variables other than body, which the main block does not touch
idlevars == <<keywords, sections, lower_keywords, si, lines, li, current_title,
              current_link, abstract_lines, in_abstract, found_papers, pc>>

MsgGraph == BlockFull

MsgOld == Join(<<Digest, NL \o paper_delimiter, Marker, TitleOld, DeepNet, LinkLine2>>, NL)

\* the decoded text/plain payloads a fetched message may carry
MessageBodies == {MsgGraph, MsgOld}

\* the UID lists a search may return
UidLists == {[i \in 1..n |-> i] : n \in 0..MaxMsgs}

\* what the calls on the connection produce: a status, or an exception
Outcomes == {"OK", "NO", "raise"}

Cmd(name, uid, outcome) == [cmd |-> name, uid |-> uid, outcome |-> outcome]

MainInit ==
    /\ body = <<>>
    /\ keywords \in KeywordLists
    /\ sections = <<>>
    /\ lower_keywords = <<>>
    /\ si = 0
    /\ lines = <<>>
    /\ li = 0
    /\ current_title = <<>>
    /\ current_link = <<>>
    /\ abstract_lines = <<>>
    /\ in_abstract = FALSE
    /\ found_papers = <<>>
    /\ pc = "idle"
    /\ mpc = "connect"
    /\ uids = <<>>
    /\ mi = 0
    /\ all_matches = <<>>
    /\ logged_in = FALSE
    /\ imap_log = <<>>
    /\ handed = <<>>
    /\ written = <<>>

\* imaplib.IMAP4_SSL(...) and mail.login(...) return; all_matches = []
ConnectLogin ==
    /\ mpc = "connect"
    /\ logged_in' = TRUE
    /\ all_matches' = <<>>
    /\ mpc' = "select"
    /\ UNCHANGED <<body, idlevars, uids, mi, imap_log, handed, written>>

\* the connection or the login raises: the outer except clauses log it
ConnectLoginRaises ==
    /\ mpc = "connect"
    /\ mpc' = "done"
    /\ UNCHANGED <<body, idlevars, uids, mi, all_matches, logged_in, imap_log, handed, written>>

\* mail.select("INBOX") returns OK
SelectOk ==
    /\ mpc = "select"
    /\ imap_log' = Append(imap_log, Cmd("select", 0, "OK"))
    /\ mpc' = "search"
    /\ UNCHANGED <<body, idlevars, uids, mi, all_matches, logged_in, handed, written>>

\* mail.select raises, or its status is not OK and the code raises IMAP4.error
SelectFails ==
    /\ mpc = "select"
    /\ \E outcome \in {"NO", "raise"} :
           imap_log' = Append(imap_log, Cmd("select", 0, outcome))
    /\ mpc' = "finally"
    /\ UNCHANGED <<body, idlevars, uids, mi, all_matches, logged_in, handed, written>>

\* mail.uid("search", ...) returns OK with a list of UIDs
SearchOk ==
    /\ mpc = "search"
    /\ imap_log' = Append(imap_log, Cmd("search", 0, "OK"))
    /\ uids' \in UidLists
    /\ mi' = 1
    /\ mpc' = "fetch"
    /\ UNCHANGED <<body, idlevars, all_matches, logged_in, handed, written>>

\* the search raises, or its status is not OK and the code raises IMAP4.error
SearchFails ==
    /\ mpc = "search"
    /\ \E outcome \in {"NO", "raise"} :
           imap_log' = Append(imap_log, Cmd("search", 0, outcome))
    /\ mpc' = "finally"
    /\ UNCHANGED <<body, idlevars, uids, mi, all_matches, logged_in, handed, written>>

\* the loop over uids is exhausted
LoopEnd ==
    /\ mpc = "fetch"
    /\ mi > Len(uids)
    /\ mpc' = "finally"
    /\ UNCHANGED <<body, idlevars, uids, mi, all_matches, logged_in, imap_log, handed, written>>

\* mail.uid("fetch", uid, "(RFC822)") returns OK and a body is extracted
FetchBody ==
    /\ mpc = "fetch"
    /\ mi <= Len(uids)
    /\ imap_log' = Append(imap_log, Cmd("fetch", uids[mi], "OK"))
    /\ body' \in MessageBodies
    /\ mpc' = "process"
    /\ UNCHANGED <<idlevars, uids, mi, all_matches, logged_in, handed, written>>

\* the fetch status is not OK: continue
FetchNotOk ==
    /\ mpc = "fetch"
    /\ mi <= Len(uids)
    /\ imap_log' = Append(imap_log, Cmd("fetch", uids[mi], "NO"))
    /\ mi' = mi + 1
    /\ UNCHANGED <<body, idlevars, mpc, uids, all_matches, logged_in, handed, written>>

\* a message without a body is marked as read all the same
MutFetchNoBodyMarksRead ==
    /\ mpc = "fetch"
    /\ mi <= Len(uids)
    /\ imap_log' = imap_log \o <<Cmd("fetch", uids[mi], "OK"), Cmd("store", uids[mi], "OK")>>
    /\ body' = <<>>
    /\ mi' = mi + 1
    /\ UNCHANGED <<idlevars, mpc, uids, all_matches, logged_in, handed, written>>

\* the fetch is OK but no text/plain part decodes: body == "", continue
FetchNoBody ==
    /\ mpc = "fetch"
    /\ mi <= Len(uids)
    /\ imap_log' = Append(imap_log, Cmd("fetch", uids[mi], "OK"))
    /\ body' = <<>>
    /\ mi' = mi + 1
    /\ UNCHANGED <<idlevars, mpc, uids, all_matches, logged_in, handed, written>>

\* the fetch, or the parse of its reply, raises: the inner except clauses end the loop
FetchRaises ==
    /\ mpc = "fetch"
    /\ mi <= Len(uids)
    /\ imap_log' = Append(imap_log, Cmd("fetch", uids[mi], "raise"))
    /\ mpc' = "finally"
    /\ UNCHANGED <<body, idlevars, uids, mi, all_matches, logged_in, handed, written>>

\* all_matches.extend(matches_in_email)
Extend(matches, matches_in_email) == matches \o matches_in_email

\* matches_in_email = process_email_body(body, keywords); all_matches.extend(...)
ProcessBody ==
    /\ mpc = "process"
    /\ handed' = Append(handed, [uid |-> uids[mi], body |-> body])
    /\ all_matches' = Extend(all_matches, process_email_body(body, keywords))
    /\ mpc' = "store"
    /\ UNCHANGED <<body, idlevars, uids, mi, logged_in, imap_log, written>>

\* mail.uid("store", uid, "+FLAGS", "\\Seen"): OK, not OK (a warning), or an
\* exception, which the try around the call catches; the loop goes on either way
MarkRead ==
    /\ mpc = "store"
    /\ \E outcome \in Outcomes :
           imap_log' = Append(imap_log, Cmd("store", uids[mi], outcome))
    /\ mi' = mi + 1
    /\ mpc' = "fetch"
    /\ UNCHANGED <<body, idlevars, uids, all_matches, logged_in, handed, written>>

\* finally: mail.logout() returns
LogoutOk ==
    /\ mpc = "finally"
    /\ imap_log' = Append(imap_log, Cmd("logout", 0, "OK"))
    /\ mpc' = "write"
    /\ UNCHANGED <<body, idlevars, uids, mi, all_matches, logged_in, handed, written>>

\* finally: mail.logout() raises; the exception leaves the outer try body, so the
\* write_results call after the finally clause is not reached
LogoutRaises ==
    /\ mpc = "finally"
    /\ imap_log' = Append(imap_log, Cmd("logout", 0, "raise"))
    /\ mpc' = "done"
    /\ UNCHANGED <<body, idlevars, uids, mi, all_matches, logged_in, handed, written>>

\* write_results(all_matches, output_file)
WriteResults ==
    /\ mpc = "write"
    /\ written' = Append(written, all_matches)
    /\ mpc' = "done"
    /\ UNCHANGED <<body, idlevars, uids, mi, all_matches, logged_in, imap_log, handed>>

MainNext ==
    \/ ConnectLogin
    \/ ConnectLoginRaises
    \/ SelectOk
    \/ SelectFails
    \/ SearchOk
    \/ SearchFails
    \/ LoopEnd
    \/ FetchBody
    \/ FetchNotOk
    \/ FetchNoBody
    \/ FetchRaises
    \/ ProcessBody
    \/ MarkRead
    \/ LogoutOk
    \/ LogoutRaises
    \/ WriteResults

MainSpec == MainInit /\ [][MainNext]_vars

-----------------------------------------------------------------------------
(* Properties of process_email_body, checked under Spec *)

\* the scan is about to read line li of the current section
AtLine == pc = "line" /\ li <= Len(lines)

\* the scan of the current section has read its last line
AtEnd == pc = "line" /\ li > Len(lines)

\* the section that was just finished, with the scan state it ended in
AfterSection == pc = "section" /\ si > 1 /\ IsCandidate(sections[si - 1])

Last(q) == q[Len(q)]

TheTitle == current_title[1]

TheLink == current_link[1]

TheAbstract == Strip(Join(abstract_lines, <<" ">>))

\* title, space-joined abstract and link are all non-empty
RecordComplete ==
    /\ current_title # <<>> /\ TheTitle # <<>>
    /\ current_link # <<>> /\ TheLink # <<>>
    /\ TheAbstract # <<>>

\* some keyword, lower-cased, is a substring of the lower-cased text
HitIn(text) == \E k \in 1..Len(keywords) : Contains(Lower(text), Lower(keywords[k]))

\* the text after the "Title:" prefix of a title line, trimmed
TitleRemainder(line) == Strip(SubSeq(line, Len(TitlePrefix) + 1, Len(line)))

\* the trimmed line starts, case-insensitively, with a recognized header label
HeaderPrefixed(line) ==
    \E h \in HeaderLabels : StartsWith(Lower(Strip(line)), Lower(h))

\* line holds at index i:  backslash, space, "(", space, an arxiv.org/abs URL, n
\* spaces, a comma, any whitespace, digits, "kb)"; <<>> or <<the URL>>
RefAt(line, i, n) ==
    LET a == i + 4
        b == IF StartsWithAt(line, a, Http \o <<"s">>) THEN a + 5 ELSE a + 4
        c == b + Len(ArxivAbs)
        d == c + NonSpaceRun(line, c)
        e == d + n + 1
        f == e + SpaceRun(line, e)
        g == f + DigitRun(line, f)
    IN  IF /\ StartsWithAt(line, i, <<"\\", " ", "(", " ">> \o Http)
           /\ StartsWithAt(line, b, ArxivAbs)
           /\ d > c
           /\ StartsWithAt(line, d, Spaces(n) \o <<",">>)
           /\ g > f
           /\ StartsWithAt(line, g, <<"k", "b", ")">>)
        THEN <<SubSeq(line, a, d - 1)>>
        ELSE <<>>

\* the indexes of line at which such a reference stands, with n among pads
RefIndexes(line, pads) ==
    {i \in 1..Len(line) : \E n \in pads : RefAt(line, i, n) # <<>>}

\* the URL of the leftmost such reference
RefUrl(line, pads) ==
    LET i == CHOOSE x \in RefIndexes(line, pads) : \A y \in RefIndexes(line, pads) : x <= y
    IN  RefAt(line, i, CHOOSE n \in pads : RefAt(line, i, n) # <<>>)

\* C1: when the scan of a candidate block ends in a complete record (non-empty
\* title, abstract and link), the block adds its {title, link} entry to the result
\* if some keyword, lower-cased, is a substring of the lower-cased title or abstract,
\* and adds nothing otherwise.
C1_CompleteRecordIncludedIffKeywordHit ==
    [][ (AtEnd /\ RecordComplete) =>
          IF HitIn(TheTitle) \/ HitIn(TheAbstract)
          THEN found_papers' = Append(found_papers, [title |-> TheTitle, link |-> TheLink])
          ELSE found_papers' = found_papers ]_vars

\* a complete record whose only keyword hit is in the abstract has been included
C1_Witness ==
    /\ AfterSection
    /\ RecordComplete
    /\ ~HitIn(TheTitle)
    /\ HitIn(TheAbstract)
    /\ found_papers # <<>>
    /\ Last(found_papers) = [title |-> TheTitle, link |-> TheLink]

\* C2: the result only ever grows at its end, by at most one entry per step, and only
\* in the step that finishes a block, by that block's record; blocks are finished in
\* the order of the raw text, so the result is an order-preserving subsequence of the
\* blocks with at most one entry per block, however many keywords match.
C2_OrderedAtMostOncePerBlock ==
    [][ /\ si' >= si
        /\ Len(found_papers') <= si' - 1 \/ si' = 0
        /\ \/ found_papers' = found_papers
           \/ /\ AtEnd
              /\ si' = si + 1
              /\ current_title # <<>> /\ current_link # <<>>
              /\ found_papers' =
                     Append(found_papers, [title |-> TheTitle, link |-> TheLink]) ]_vars

\* three blocks, two keywords that both match a block, two entries in block order
C2_Witness ==
    /\ pc = "return"
    /\ Len(sections) = 3
    /\ Len(keywords) = 2
    /\ Len(found_papers) = 2
    /\ found_papers[1].title = <<"O", "l", "d">>
    /\ found_papers[2].title = <<"G", "r", "a", "p", "h", " ", "F", "l", "o", "w">>
    /\ IsCandidate(sections[2])

\* C3: the result changes only in the step that finishes a block whose title,
\* space-joined abstract and link are all non-empty; such a block has a Title line
\* and a line matching the reference-link pattern, so a block without a Title line
\* or without a reference line yields nothing.
C3_NoPartialRecord ==
    [][ found_papers' # found_papers =>
          /\ AtEnd
          /\ RecordComplete
          /\ \E i \in 1..Len(lines) : IsTitleLine(Strip(lines[i]))
          /\ \E i \in 1..Len(lines) : link_regex_search(Strip(lines[i])) # <<>> ]_vars

\* a block with a title and a keyword-matching abstract but no reference line has
\* been finished and has yielded nothing
C3_Witness ==
    /\ AfterSection
    /\ found_papers = <<>>
    /\ current_title # <<>> /\ TheTitle # <<>>
    /\ TheAbstract # <<>>
    /\ HitIn(TheAbstract)
    /\ current_link = <<>>
    /\ \A i \in 1..Len(lines) : link_regex_search(Strip(lines[i])) = <<>>

\* C4: with an empty keyword list the result is empty.
C4_EmptyKeywordsEmptyResult ==
    keywords = <<>> => found_papers = <<>>

\* a complete record has been finished under the empty keyword list
C4_Witness ==
    /\ AfterSection
    /\ keywords = <<>>
    /\ RecordComplete

\* C5: no line that starts, case-insensitively, with a recognized header label is
\* ever among the abstract lines.
C5_HeaderNeverInAbstract ==
    \A i \in 1..Len(abstract_lines) : ~HeaderPrefixed(abstract_lines[i])

\* a header line other than Title: has just been scanned while collecting, between
\* the Title line and the reference line
C5_Witness ==
    /\ pc = "line"
    /\ li > 1
    /\ HeaderPrefixed(lines[li - 1])
    /\ ~IsTitleLine(Strip(lines[li - 1]))
    /\ in_abstract
    /\ current_title # <<>> /\ TheTitle # <<>>
    /\ current_link = <<>>

\* C6 as stated: a line (not a Title line) holding the reference syntax with one or
\* more spaces before the comma and any whitespace after it sets the link to its URL.
C6_AnySpacesBeforeComma ==
    [][ (AtLine /\ ~IsTitleLine(Strip(lines[li]))
               /\ RefIndexes(Strip(lines[li]), 1..Len(lines[li])) # {}) =>
          current_link' = RefUrl(Strip(lines[li]), 1..Len(lines[li])) ]_vars

\* C6, amended: a line that is not a Title line and holds the reference syntax with
\* exactly one space before the comma and any whitespace, or none, after it sets the
\* link to the URL of the leftmost such reference.
C6_OneSpaceBeforeComma ==
    [][ (AtLine /\ ~IsTitleLine(Strip(lines[li]))
               /\ RefIndexes(Strip(lines[li]), {1}) # {}) =>
          current_link' = RefUrl(Strip(lines[li]), {1}) ]_vars

\* a reference line with a tab after the comma has just set the link
C6_Witness ==
    /\ pc = "line"
    /\ li > 1
    /\ ~IsTitleLine(Strip(lines[li - 1]))
    /\ RefIndexes(Strip(lines[li - 1]), {1}) # {}
    /\ Contains(lines[li - 1], <<",", "\t">>)
    /\ current_link = RefUrl(Strip(lines[li - 1]), {1})

\* C7 as stated: every non-blank line matching the reference pattern, a Title line
\* included, sets the link, clears the collecting flag and is not appended.
C7_EveryMatchingLineSetsLink ==
    [][ (AtLine /\ link_regex_search(Strip(lines[li])) # <<>>) =>
          /\ current_link' = link_regex_search(Strip(lines[li]))
          /\ in_abstract' = FALSE
          /\ abstract_lines' = abstract_lines ]_vars

\* C7, amended: a non-blank line matching the reference pattern that does not start
\* with "Title:" (it may start with another header label) sets the link, clears the
\* collecting flag and is not appended; one that starts with "Title:" is a title
\* line: it sets the title and the collecting flag and leaves link and abstract alone.
C7_MatchingLineSetsLinkUnlessTitle ==
    [][ (AtLine /\ link_regex_search(Strip(lines[li])) # <<>>) =>
          IF IsTitleLine(Strip(lines[li]))
          THEN /\ current_title' = <<TitleRemainder(Strip(lines[li]))>>
               /\ in_abstract' = TRUE
               /\ current_link' = current_link
               /\ abstract_lines' = abstract_lines
          ELSE /\ current_link' = link_regex_search(Strip(lines[li]))
               /\ in_abstract' = FALSE
               /\ abstract_lines' = abstract_lines ]_vars

\* a line that starts with the header label DOI: and matches the reference pattern
\* has just been scanned while collecting: the link is set, collecting is off
C7_Witness ==
    /\ pc = "line"
    /\ li > 1
    /\ HeaderPrefixed(lines[li - 1])
    /\ ~IsTitleLine(Strip(lines[li - 1]))
    /\ link_regex_search(Strip(lines[li - 1])) # <<>>
    /\ current_link = link_regex_search(Strip(lines[li - 1]))
    /\ ~in_abstract
    /\ abstract_lines # <<>>

\* the index of the last Title line of the current section
LastTitleIndex ==
    CHOOSE i \in 1..Len(lines) :
        /\ IsTitleLine(Strip(lines[i]))
        /\ \A j \in (i + 1)..Len(lines) : ~IsTitleLine(Strip(lines[j]))

\* C8: every Title line sets the title to its trimmed remainder and the collecting
\* flag to true, whatever the title was; and the title of an emitted record is the
\* trimmed remainder of the last Title line of its block.
C8_LastTitleWins ==
    [][ /\ (AtLine /\ IsTitleLine(Strip(lines[li]))) =>
              /\ current_title' = <<TitleRemainder(Strip(lines[li]))>>
              /\ in_abstract' = TRUE
        /\ (AtEnd /\ found_papers' # found_papers) =>
              Last(found_papers').title = TitleRemainder(Strip(lines[LastTitleIndex])) ]_vars

\* a block with two Title lines of different titles has emitted a record, which
\* carries the later title
C8_Witness ==
    /\ AfterSection
    /\ found_papers # <<>>
    /\ \E i, j \in 1..Len(lines) :
           /\ i < j
           /\ IsTitleLine(Strip(lines[i]))
           /\ IsTitleLine(Strip(lines[j]))
           /\ TitleRemainder(Strip(lines[i])) # TitleRemainder(Strip(lines[j]))
           /\ TitleRemainder(Strip(lines[i])) # <<>>
    /\ Last(found_papers).title = TitleRemainder(Strip(lines[LastTitleIndex]))

-----------------------------------------------------------------------------
(* Properties of the __main__ block, checked under MainSpec *)

\* the UIDs of the commands of the given name in the log, in order
UidsOf(name) ==
    LET cs == SelectSeq(imap_log, LAMBDA c : c.cmd = name)
    IN  [i \in 1..Len(cs) |-> cs[i].uid]

HandedUids == [i \in 1..Len(handed) |-> handed[i].uid]

RECURSIVE MatchesOf(_)
\* the matches of the given messages, concatenated in order
MatchesOf(hs) ==
    IF hs = <<>> THEN <<>>
    ELSE process_email_body(Head(hs).body, keywords) \o MatchesOf(Tail(hs))

\* the UIDs whose fetch came back with a status other than OK or raised
FetchFailedUids ==
    {imap_log[i].uid : i \in {j \in 1..Len(imap_log) :
                                 imap_log[j].cmd = "fetch" /\ imap_log[j].outcome # "OK"}}

\* C9: the messages a STORE was issued for are exactly the messages whose body was
\* handed to process_email_body, in the same order; the STORE of a message comes
\* after its matches were appended to all_matches; a message whose fetch was not OK
\* and a message with no body is neither handed over nor marked, and all_matches
\* holds the matches of the handed messages only.
C9_MarkedExactlyWhenProcessed ==
    /\ IF mpc = "store"
       THEN HandedUids = Append(UidsOf("store"), uids[mi])
       ELSE HandedUids = UidsOf("store")
    /\ all_matches = MatchesOf(handed)
    /\ \A i \in 1..Len(handed) : handed[i].body # <<>>
    /\ \A u \in FetchFailedUids : \A i \in 1..Len(handed) : handed[i].uid # u

\* the loop ran over two messages: the first had no usable fetch and was skipped
\* unmarked, the second was processed, gave a match and was marked
C9_Witness ==
    /\ mpc = "finally"
    /\ UidsOf("fetch") = <<1, 2>>
    /\ UidsOf("store") = <<2>>
    /\ 1 \in FetchFailedUids
    /\ all_matches # <<>>

\* C10: when the run ends after a successful login, logout was called once and
\* write_results was called once, with all_matches, which holds the matches of every
\* message processed (so of every message marked as read), in order.
C10_LogoutThenWriteOnce ==
    (mpc = "done" /\ logged_in) =>
        /\ Len(UidsOf("logout")) = 1
        /\ written = <<all_matches>>
        /\ all_matches = MatchesOf(handed)

====
